---- MODULE Spec2Model ----
(***************************************************************************)
(* Built-in functions of the CEL interpreter (interpreter/src/functions.rs) *)
(* size, contains, has and map, together with the parts of the value       *)
(* model, the scope chain and the resolver they call into.                 *)
(***************************************************************************)
EXTENDS Integers, Sequences, FiniteSets, TLC

\* ------------------------------------------------------------------ bounds
MaxListLen == 2
MaxArgs == 3

\* ------------------------------------------------------------------ values
\* CelType: a tag t and a payload v.  String payloads are sequences of code
\* points, Bytes payloads sequences of bytes, List payloads sequences of
\* values, Map payloads sequences of entries [k |-> key, v |-> value] with
\* pairwise distinct keys.
CelNull == [t |-> "Null", v |-> 0]
CelBool(b) == [t |-> "Bool", v |-> b]
CelInt(n) == [t |-> "Int", v |-> n]
CelUInt(n) == [t |-> "UInt", v |-> n]
CelFloat(f) == [t |-> "Float", v |-> f]
CelString(s) == [t |-> "String", v |-> s]
CelBytes(b) == [t |-> "Bytes", v |-> b]
CelList(l) == [t |-> "List", v |-> l]
CelMap(m) == [t |-> "Map", v |-> m]

\* Option<&CelType>::None
NoTarget == [t |-> "None", v |-> 0]

\* The one float payload that is not equal to itself.
NaN == "NaN"

\* usize as i32: the low 32 bits read as a signed number.  Counts up to
\* 2^31 - 1 keep their value; the counts of this model lie far below that.
AsI32(n) ==
    IF n <= 2147483647 THEN n ELSE ((n - 2147483647) - 2147483647) - 2

\* Number of bytes of the UTF-8 encoding of code point c.
Utf8Len(c) ==
    IF c < 128 THEN 1 ELSE IF c < 2048 THEN 2 ELSE IF c < 65536 THEN 3 ELSE 4

RECURSIVE Utf8Bytes(_)
\* String::len(): the length in bytes of the UTF-8 encoding.
Utf8Bytes(s) ==
    IF s = <<>> THEN 0 ELSE Utf8Len(Head(s)) + Utf8Bytes(Tail(s))

RECURSIVE CelEq(_, _)
\* PartialEq of CelType: same variant and equal payloads; floats compare as
\* IEEE numbers (NaN differs from everything), lists compare elementwise.
CelEq(a, b) ==
    /\ a.t = b.t
    /\ CASE a.t = "Float" -> a.v # NaN /\ b.v # NaN /\ a.v = b.v
         [] a.t = "List" ->
                /\ Len(a.v) = Len(b.v)
                /\ \A i \in 1..Len(a.v) : CelEq(a.v[i], b.v[i])
         [] a.t = "Map" ->
                /\ Len(a.v) = Len(b.v)
                /\ \A i \in 1..Len(a.v) : \E j \in 1..Len(b.v) :
                       /\ a.v[i].k = b.v[j].k
                       /\ CelEq(a.v[i].v, b.v[j].v)
         [] OTHER -> a.v = b.v

\* ------------------------------------------------------------------ errors
NoError == [kind |-> "None"]
NoSuchKey(name) == [kind |-> "NoSuchKey", name |-> name]
invalid_argument_count(expected, actual) ==
    [kind |-> "InvalidArgumentCount", expected |-> expected, actual |-> actual]
not_supported_as_method(name, target) ==
    [kind |-> "NotSupportedAsMethod", function |-> name, target |-> target]
missing_argument_or_target == [kind |-> "MissingArgumentOrTarget"]
function_error(function, message) ==
    [kind |-> "FunctionError", function |-> function, message |-> message]
\* A formatted message: its text and the value formatted into it.
Message(text, arg) == [text |-> text, arg |-> arg]
UnsupportedKeyType(value) == [kind |-> "UnsupportedKeyType", value |-> value]
\* Option::unwrap() on None
Panic == [kind |-> "Panic"]

\* Result<CelType, ExecutionError>
Ok(v) == [ok |-> TRUE, val |-> v, err |-> NoError]
Err(e) == [ok |-> FALSE, val |-> CelNull, err |-> e]

\* ------------------------------------------------------------------ scopes
\* A context is an index into an arena of frames; a frame has a parent index
\* (0 for the root) and its own variables.
NoVars == [n \in {} |-> CelNull]

Frame(parent, variables) == [parent |-> parent, variables |-> variables]

RECURSIVE get_variable(_, _, _)
\* Lookup in the current frame first, then along the parent chain.
get_variable(fr, c, name) ==
    IF c = 0 THEN [found |-> FALSE, val |-> CelNull]
    ELSE IF name \in DOMAIN fr[c].variables
         THEN [found |-> TRUE, val |-> fr[c].variables[name]]
         ELSE get_variable(fr, fr[c].parent, name)

\* Context::clone(): a new child frame of c with no variables of its own.
clone(fr, c) == Append(fr, Frame(c, NoVars))

\* Context::add_variable(): writes into the frame c itself.
add_variable(fr, c, name, value) ==
    [fr EXCEPT ![c].variables =
        [n \in (DOMAIN @) \cup {name} |-> IF n = name THEN value ELSE @[n]]]

RECURSIVE Chain(_, _)
\* The frames of context c: c itself and its ancestors.
Chain(fr, c) == IF c = 0 THEN {} ELSE {c} \cup Chain(fr, fr[c].parent)

\* ------------------------------------------------------------- expressions
Lit(v) == [k |-> "Lit", v |-> v]
Ident(name) == [k |-> "Ident", name |-> name]
Member(base, field) == [k |-> "Member", base |-> base, field |-> field]
ListLit(items) == [k |-> "ListLit", items |-> items]
MapLit(entries) == [k |-> "MapLit", entries |-> entries]
Call(name, args) == [k |-> "Call", name |-> name, args |-> args]
MethodCall(target, name, args) ==
    [k |-> "MethodCall", target |-> target, name |-> name, args |-> args]

\* TryFrom<CelType> for a map key.
IsKey(v) == v.t \in {"Bool", "Int", "UInt", "String"}

\* Projection of a field from a resolved value.
member(v, field) ==
    IF v.t = "Map" /\ \E i \in 1..Len(v.v) : v.v[i].k = CelString(field)
    THEN Ok(v.v[CHOOSE i \in 1..Len(v.v) : v.v[i].k = CelString(field)].v)
    ELSE Err(NoSuchKey(field))

IsSubstring(s, sub) ==
    \E i \in 0..(Len(s) - Len(sub)) : SubSeq(s, i + 1, i + Len(sub)) = sub

\* What a built-in hands back: its result and the resolutions it asked for,
\* in order (each with the expression and the context it was resolved in).
Ret(out, calls) == [out |-> out, calls |-> calls]
Resolution(e, fr, c) == [e |-> e, c |-> c, vars |-> fr[c].variables]

RECURSIVE resolve(_, _, _)
RECURSIVE ResolveAll(_, _, _)
RECURSIVE ResolveEntries(_, _, _)
RECURSIVE size(_, _, _, _)
RECURSIVE contains(_, _, _, _)
RECURSIVE has(_, _, _, _)

\* size as its doc comment describes it: called as a method, it measures the
\* receiver.
size_on_target(target, args, fr, c) ==
    IF target # NoTarget
    THEN IF target.t \in {"List", "Map", "Bytes"}
         THEN Ret(Ok(CelInt(AsI32(Len(target.v)))), <<>>)
         ELSE IF target.t = "String"
         THEN Ret(Ok(CelInt(AsI32(Utf8Bytes(target.v)))), <<>>)
         ELSE Ret(Err(function_error("size",
                      Message("cannot determine size of", target))), <<>>)
    ELSE IF Len(args) = 0
    THEN Ret(Err(invalid_argument_count(1, 0)), <<>>)
    ELSE LET value == resolve(args[1], fr, c)
             calls == <<Resolution(args[1], fr, c)>>
         IN  IF ~value.ok THEN Ret(value, calls)
             ELSE IF value.val.t \in {"List", "Map", "Bytes"}
             THEN Ret(Ok(CelInt(AsI32(Len(value.val.v)))), calls)
             ELSE IF value.val.t = "String"
             THEN Ret(Ok(CelInt(AsI32(Utf8Bytes(value.val.v)))), calls)
             ELSE Ret(Err(function_error("size",
                          Message("cannot determine size of", value.val))),
                      calls)

\* functions.rs: size
size(target, args, fr, c) ==
    IF target # NoTarget
    THEN Ret(Err(not_supported_as_method("size", target)), <<>>)
    ELSE IF Len(args) = 0
    THEN Ret(Err(invalid_argument_count(1, 0)), <<>>)
    ELSE LET value == resolve(args[1], fr, c)
             calls == <<Resolution(args[1], fr, c)>>
         IN  IF ~value.ok THEN Ret(value, calls)
             ELSE CASE value.val.t = "List" ->
                           Ret(Ok(CelInt(AsI32(Len(value.val.v)))), calls)
                    [] value.val.t = "Map" ->
                           Ret(Ok(CelInt(AsI32(Len(value.val.v)))), calls)
                    [] value.val.t = "String" ->
                           Ret(Ok(CelInt(AsI32(Utf8Bytes(value.val.v)))), calls)
                    [] value.val.t = "Bytes" ->
                           Ret(Ok(CelInt(AsI32(Len(value.val.v)))), calls)
                    [] OTHER ->
                           Ret(Err(function_error("size",
                                   Message("cannot determine size of", value.val))),
                               calls)

\* Vec::contains under PartialEq
ListContains(items, arg) == \E i \in 1..Len(items) : CelEq(items[i], arg)

\* contains with the probe of a list converted to a key, as for a map.
contains_keyed(target, args, fr, c) ==
    IF target = NoTarget THEN Ret(Err(Panic), <<>>)
    ELSE IF Len(args) = 0
    THEN Ret(Err(invalid_argument_count(1, 0)), <<>>)
    ELSE LET r == resolve(args[1], fr, c)
             arg == r.val
             calls == <<Resolution(args[1], fr, c)>>
         IN  IF ~r.ok THEN Ret(r, calls)
             ELSE IF target.t \in {"List", "Map"} /\ ~IsKey(arg)
             THEN Ret(Err(UnsupportedKeyType(arg)), calls)
             ELSE IF target.t = "List"
             THEN Ret(Ok(CelBool(ListContains(target.v, arg))), calls)
             ELSE IF target.t = "Map"
             THEN Ret(Ok(CelBool(\E i \in 1..Len(target.v) :
                                    target.v[i].k = arg)), calls)
             ELSE Ret(Ok(CelBool(FALSE)), calls)

\* functions.rs: contains
contains(target, args, fr, c) ==
    IF target = NoTarget THEN Ret(Err(Panic), <<>>)
    ELSE IF Len(args) = 0
    THEN Ret(Err(invalid_argument_count(1, 0)), <<>>)
    ELSE LET r == resolve(args[1], fr, c)
             arg == r.val
             calls == <<Resolution(args[1], fr, c)>>
         IN  IF ~r.ok THEN Ret(r, calls)
             ELSE CASE target.t = "List" ->
                           Ret(Ok(CelBool(ListContains(target.v, arg))), calls)
                    [] target.t = "Map" ->
                           IF ~IsKey(arg)
                           THEN Ret(Err(UnsupportedKeyType(arg)), calls)
                           ELSE Ret(Ok(CelBool(\E i \in 1..Len(target.v) :
                                               target.v[i].k = arg)), calls)
                    [] target.t = "String" ->
                           IF arg.t = "String"
                           THEN Ret(Ok(CelBool(IsSubstring(target.v, arg.v))), calls)
                           ELSE Ret(Ok(CelBool(FALSE)), calls)
                    [] target.t = "Bytes" ->
                           IF arg.t = "Bytes"
                           THEN IF Len(arg.v) > 1
                                THEN Ret(Err(function_error("contains",
                                         Message("expected 1 byte, found", CelUInt(Len(arg.v))))),
                                         calls)
                                ELSE IF Len(arg.v) = 0
                                THEN Ret(Ok(CelBool(FALSE)), calls)
                                ELSE Ret(Ok(CelBool(\E i \in 1..Len(target.v) :
                                                    target.v[i] = arg.v[1])), calls)
                           ELSE Ret(Ok(CelBool(FALSE)), calls)
                    [] OTHER -> Ret(Ok(CelBool(FALSE)), calls)

\* has with every failed resolution read as absence.
has_swallow(target, args, fr, c) ==
    IF target # NoTarget
    THEN Ret(Err(not_supported_as_method("has", target)), <<>>)
    ELSE IF Len(args) = 0
    THEN Ret(Err(invalid_argument_count(1, 0)), <<>>)
    ELSE LET r == resolve(args[1], fr, c)
         IN  Ret(Ok(CelBool(r.ok)), <<Resolution(args[1], fr, c)>>)

\* functions.rs: has
has(target, args, fr, c) ==
    IF target # NoTarget
    THEN Ret(Err(not_supported_as_method("has", target)), <<>>)
    ELSE IF Len(args) = 0
    THEN Ret(Err(invalid_argument_count(1, 0)), <<>>)
    ELSE LET r == resolve(args[1], fr, c)
             calls == <<Resolution(args[1], fr, c)>>
         IN  IF r.ok THEN Ret(Ok(CelBool(TRUE)), calls)
             ELSE IF r.err.kind = "NoSuchKey"
                  THEN Ret(Ok(CelBool(FALSE)), calls)
                  ELSE Ret(Err(r.err), calls)

\* Function registry: the built-ins a nested call expression can reach.
dispatch(name, target, args, fr, c) ==
    CASE name = "size" -> size(target, args, fr, c).out
      [] name = "contains" -> contains(target, args, fr, c).out
      [] name = "has" -> has(target, args, fr, c).out
      [] OTHER -> Err(function_error(name, Message("unknown function", CelNull)))

\* Resolves the expressions of es in order; stops at the first failure.
ResolveAll(es, fr, c) ==
    IF es = <<>> THEN Ok(CelList(<<>>))
    ELSE LET h == resolve(Head(es), fr, c)
         IN  IF ~h.ok THEN h
             ELSE LET t == ResolveAll(Tail(es), fr, c)
                  IN  IF ~t.ok THEN t ELSE Ok(CelList(<<h.val>> \o t.val.v))

\* Resolves the entries of a map literal in order, key before value; a key
\* that is not of a key variant fails with UnsupportedKeyType.
ResolveEntries(es, fr, c) ==
    IF es = <<>> THEN Ok(CelMap(<<>>))
    ELSE LET key == resolve(Head(es).key, fr, c)
             val == resolve(Head(es).val, fr, c)
             t == ResolveEntries(Tail(es), fr, c)
         IN  IF ~key.ok THEN key
             ELSE IF ~IsKey(key.val) THEN Err(UnsupportedKeyType(key.val))
             ELSE IF ~val.ok THEN val
             ELSE IF ~t.ok THEN t
             ELSE Ok(CelMap(<<[k |-> key.val, v |-> val.val]>> \o t.val.v))

\* CelType::resolve
resolve(e, fr, c) ==
    CASE e.k = "Lit" -> Ok(e.v)
      [] e.k = "Ident" ->
             LET r == get_variable(fr, c, e.name)
             IN  IF r.found THEN Ok(r.val) ELSE Err(NoSuchKey(e.name))
      [] e.k = "Member" ->
             LET b == resolve(e.base, fr, c)
             IN  IF ~b.ok THEN b ELSE member(b.val, e.field)
      [] e.k = "ListLit" -> ResolveAll(e.items, fr, c)
      [] e.k = "MapLit" -> ResolveEntries(e.entries, fr, c)
      [] e.k = "Call" -> dispatch(e.name, NoTarget, e.args, fr, c)
      [] e.k = "MethodCall" ->
             LET t == resolve(e.target, fr, c)
             IN  IF ~t.ok THEN t ELSE dispatch(e.name, t.val, e.args, fr, c)

\* functions.rs: get_ident
get_ident(expr) ==
    IF expr.k = "Ident" THEN Ok(expr.name)
    ELSE Err(function_error("map",
             Message("first argument must be an identifier", CelNull)))

\* map's checks with the actual count left at 0, as size and has report it.
map_check_zero(target, args) ==
    IF target = NoTarget THEN Err(missing_argument_or_target)
    ELSE IF Len(args) # 2 THEN Err(invalid_argument_count(2, 0))
    ELSE LET ident == get_ident(args[1])
         IN  IF ~ident.ok THEN ident
             ELSE IF target.t = "List" THEN ident
             ELSE Err(function_error("map",
                      Message("map can only be called on a list", CelNull)))

\* map's checks with the receiver's type looked at before the arguments.
map_check_type_first(target, args) ==
    IF target = NoTarget THEN Err(missing_argument_or_target)
    ELSE IF target.t # "List"
    THEN Err(function_error("map",
             Message("map can only be called on a list", CelNull)))
    ELSE IF Len(args) # 2 THEN Err(invalid_argument_count(2, Len(args)))
    ELSE get_ident(args[1])

\* functions.rs: map, up to the loop: the receiver, the argument count, the
\* identifier and the receiver's type, in that order.  Ok(name) lets the loop
\* start.
map_check(target, args) ==
    IF target = NoTarget THEN Err(missing_argument_or_target)
    ELSE IF Len(args) # 2 THEN Err(invalid_argument_count(2, Len(args)))
    ELSE LET ident == get_ident(args[1])
         IN  IF ~ident.ok THEN ident
             ELSE IF target.t = "List" THEN ident
             ELSE Err(function_error("map",
                      Message("map can only be called on a list", CelNull)))

\* The loop variable written to the caller's own frame.
map_frame_caller(caller, local) == caller

\* functions.rs: map, the frame the loop variable is written to.
map_frame(caller, local) == local

\* One iteration with the transform resolved before the item is bound.
map_step_stale(fr, caller, local, ident, item, transform) ==
    LET fr2 == add_variable(fr, map_frame(caller, local), ident, item)
    IN  [frames |-> fr2,
         value |-> resolve(transform, fr, local),
         call |-> Resolution(transform, fr2, local)]

\* The elements taken from the back.
map_item_rev(items, i) == items[Len(items) + 1 - i]

\* functions.rs: map, the element the i-th iteration binds.
map_item(items, i) == items[i]

\* functions.rs: map, one iteration: binds the item, resolves the transform.
map_step(fr, caller, local, ident, item, transform) ==
    LET fr2 == add_variable(fr, map_frame(caller, local), ident, item)
    IN  [frames |-> fr2,
         value |-> resolve(transform, fr2, local),
         call |-> Resolution(transform, fr2, local)]

\* ------------------------------------------------------------------ inputs
X == <<120>>
FOO == <<102, 111, 111>>
BAR == <<98, 97, 114>>
BAZ == <<98, 97, 122>>

VInt1 == CelInt(1)
VUInt1 == CelUInt(1)
VStrE == CelString(<<233>>)
VStrAE == CelString(<<97, 233>>)
VBytesAB == CelBytes(<<97, 98>>)
VBytesA == CelBytes(<<97>>)
VNaN == CelFloat(NaN)
VMapBar == CelMap(<<[k |-> CelString(BAR), v |-> VInt1]>>)

Scopes ==
    { [frames |-> <<Frame(0, NoVars)>>, ctx |-> 1],
      [frames |-> <<Frame(0, FOO :> VMapBar)>>, ctx |-> 1],
      [frames |-> <<Frame(0, (FOO :> VMapBar) @@ (X :> CelInt(7)))>>, ctx |-> 1],
      [frames |-> <<Frame(0, X :> CelInt(7)), Frame(1, FOO :> VMapBar)>>,
       ctx |-> 2] }

ListElems == {VInt1, VStrE, VMapBar, VNaN}

Lists == UNION {{CelList(l) : l \in [1..n -> ListElems]} : n \in 0..MaxListLen}

Targets ==
    {NoTarget, CelNull, CelBool(TRUE), VInt1, VStrAE, VBytesAB, VMapBar, VNaN}
    \cup Lists

FirstArgs ==
    { Lit(VInt1), Lit(VUInt1), Lit(VStrE), Lit(VBytesAB), Lit(VBytesA),
      Lit(VNaN), Lit(CelString(BAR)),
      Ident(X), Ident(FOO),
      Member(Ident(FOO), BAR), Member(Ident(FOO), BAZ),
      Member(Member(Ident(FOO), BAZ), BAR),
      ListLit(<<Lit(VInt1), Lit(VStrE)>>),
      MapLit(<<[key |-> Lit(VNaN), val |-> Lit(VInt1)]>>),
      Call("size", <<Lit(VInt1)>>), Call("size", <<>>),
      MethodCall(Lit(VInt1), "size", <<>>) }

SecondArgs ==
    { Ident(X), Ident(FOO), Lit(VInt1),
      Member(Ident(X), BAR),
      Call("size", <<Ident(X)>>),
      Call("has", <<Member(Ident(X), BAR)>>) }

Filler == Lit(CelNull)

ArgLists ==
    {<<>>}
    \cup (IF MaxArgs >= 1 THEN {<<a>> : a \in FirstArgs} ELSE {})
    \cup {<<a, b>> \o [i \in 1..(n - 2) |-> Filler] :
             a \in FirstArgs, b \in SecondArgs, n \in 2..MaxArgs}

\* ------------------------------------------------------------------- state
VARIABLES
    frames,   \* the arena of scope frames
    ctx,      \* the caller's context
    pc,       \* "idle", "map_loop" or "done"
    call,     \* the call in progress: name, target, args
    local,    \* map: its own context (0 outside the loop)
    values,   \* map: the results so far
    result,   \* the Result the call returned
    calls     \* the resolutions the call asked for, in order

vars == <<frames, ctx, pc, call, local, values, result, calls>>

NoCall == [name |-> "", target |-> NoTarget, args |-> <<>>]
NoResult == Err(NoError)

Init ==
    /\ \E s \in Scopes : frames = s.frames /\ ctx = s.ctx
    /\ pc = "idle"
    /\ call = NoCall
    /\ local = 0
    /\ values = <<>>
    /\ result = NoResult
    /\ calls = <<>>

\* A built-in that runs to completion in one step.
Invoke(name, target, args, ret) ==
    /\ call' = [name |-> name, target |-> target, args |-> args]
    /\ result' = ret.out
    /\ calls' = ret.calls
    /\ pc' = "done"
    /\ UNCHANGED <<frames, ctx, local, values>>

CallSize ==
    /\ pc = "idle"
    /\ \E t \in Targets, a \in ArgLists :
           Invoke("size", t, a, size(t, a, frames, ctx))

CallContains ==
    /\ pc = "idle"
    /\ \E t \in Targets, a \in ArgLists :
           Invoke("contains", t, a, contains(t, a, frames, ctx))

CallHas ==
    /\ pc = "idle"
    /\ \E t \in Targets, a \in ArgLists :
           Invoke("has", t, a, has(t, a, frames, ctx))

\* map, lines 183-195: the checks; on success the child context is created.
MapEnter ==
    /\ pc = "idle"
    /\ \E t \in Targets, a \in ArgLists :
        LET chk == map_check(t, a)
        IN  /\ call' = [name |-> "map", target |-> t, args |-> a]
            /\ calls' = <<>>
            /\ values' = <<>>
            /\ IF chk.ok
               THEN /\ frames' = clone(frames, ctx)
                    /\ local' = Len(frames) + 1
                    /\ pc' = "map_loop"
                    /\ UNCHANGED result
               ELSE /\ result' = chk
                    /\ pc' = "done"
                    /\ UNCHANGED <<frames, local>>
    /\ UNCHANGED ctx

\* Dropping map's own context when map returns.
Drop(fr, c) == SubSeq(fr, 1, c - 1)

\* map, lines 196-200: one iteration of the loop.
MapIter ==
    /\ pc = "map_loop"
    /\ Len(values) < Len(call.target.v)
    /\ LET st == map_step(frames, ctx, local, call.args[1].name,
                          map_item(call.target.v, Len(values) + 1), call.args[2])
       IN  /\ calls' = Append(calls, st.call)
           /\ IF st.value.ok
              THEN /\ values' = Append(values, st.value.val)
                   /\ frames' = st.frames
                   /\ UNCHANGED <<pc, result, local>>
              ELSE /\ result' = st.value
                   /\ frames' = Drop(st.frames, local)
                   /\ local' = 0
                   /\ pc' = "done"
                   /\ UNCHANGED values
    /\ UNCHANGED <<ctx, call>>

\* map, line 202: the loop is over.
MapExit ==
    /\ pc = "map_loop"
    /\ Len(values) = Len(call.target.v)
    /\ result' = Ok(CelList(values))
    /\ frames' = Drop(frames, local)
    /\ local' = 0
    /\ pc' = "done"
    /\ UNCHANGED <<ctx, call, values, calls>>

\* The caller takes the result; the next call starts from the same scope.
Return ==
    /\ pc = "done"
    /\ pc' = "idle"
    /\ call' = NoCall
    /\ values' = <<>>
    /\ result' = NoResult
    /\ calls' = <<>>
    /\ UNCHANGED <<frames, ctx, local>>

Next ==
    \/ CallSize
    \/ CallContains
    \/ CallHas
    \/ MapEnter
    \/ MapIter
    \/ MapExit
    \/ Return

Spec == Init /\ [][Next]_vars

TypeOK ==
    /\ pc \in {"idle", "map_loop", "done"}
    /\ ctx \in 1..Len(frames)

\* ------------------------------------------------------------ properties
Done(name) == pc = "done" /\ call.name = name

\* The caller's frames: the arena without map's own context.
CallerFrames == IF local = 0 THEN frames ELSE SubSeq(frames, 1, local - 1)

\* What resolving the first argument in the caller's scope gives.
FirstArg == resolve(call.args[1], CallerFrames, ctx)

\* The transform of a map call resolved in a fresh child of the caller's
\* scope whose only variable is the identifier, bound to the i-th element.
Transformed(i) ==
    LET n == Len(CallerFrames) + 1
    IN  resolve(call.args[2],
                add_variable(clone(CallerFrames, ctx), n,
                             call.args[1].name, call.target.v[i]),
                n)

\* A map call that got past its checks.
MapOnList ==
    /\ call.name = "map"
    /\ call.target.t = "List"
    /\ Len(call.args) = 2
    /\ call.args[1].k = "Ident"

\* C1: has without a receiver returns true when its first argument resolves,
\* false exactly when the resolution fails with NoSuchKey, and every other
\* error unchanged.
C1_HasSuppressesOnlyNoSuchKey ==
    (Done("has") /\ call.target = NoTarget /\ Len(call.args) >= 1) =>
        /\ FirstArg.ok => result = Ok(CelBool(TRUE))
        /\ (result = Ok(CelBool(FALSE))) <=>
               (~FirstArg.ok /\ FirstArg.err.kind = "NoSuchKey")
        /\ (~FirstArg.ok /\ FirstArg.err.kind # "NoSuchKey") =>
               result = Err(FirstArg.err)

\* has handed back an error that is not NoSuchKey.
C1_Witness ==
    /\ Done("has") /\ call.target = NoTarget /\ Len(call.args) >= 1
    /\ ~FirstArg.ok
    /\ FirstArg.err.kind = "UnsupportedKeyType"
    /\ result = Err(FirstArg.err)

\* C2: when the transform resolves on every element, map returns a list of
\* the receiver's length whose i-th element is the transform resolved with
\* the identifier bound to the i-th element.
C2_MapLengthAndOrder ==
    (Done("map") /\ MapOnList
        /\ \A i \in 1..Len(call.target.v) : Transformed(i).ok) =>
        /\ result.ok
        /\ result.val.t = "List"
        /\ Len(result.val.v) = Len(call.target.v)
        /\ \A i \in 1..Len(call.target.v) :
               result.val.v[i] = Transformed(i).val

\* map returned two different results for two different elements.
C2_Witness ==
    /\ Done("map") /\ MapOnList
    /\ result.ok
    /\ Len(call.target.v) = 2
    /\ call.target.v[1] # call.target.v[2]
    /\ result.val.v[1] # result.val.v[2]
    /\ result.val.v # call.target.v

\* C3: no step of a map call changes a frame of the caller's scope or of
\* its ancestors, so every name resolves in the caller's scope as before.
C3_MapLeavesCallerScope ==
    [][call'.name = "map" =>
          /\ ctx' = ctx
          /\ \A i \in Chain(frames, ctx) : frames'[i] = frames[i]
          /\ \A n \in {X, FOO} :
                 get_variable(frames', ctx', n) = get_variable(frames, ctx, n)]_vars

\* map has looped over two elements with an identifier that an ancestor of
\* the caller's scope binds.
C3_Witness ==
    /\ Done("map") /\ MapOnList
    /\ Len(calls) = 2
    /\ call.args[1].name = X
    /\ ctx = 2
    /\ X \notin DOMAIN frames[ctx].variables
    /\ get_variable(frames, ctx, X).val = CelInt(7)
    /\ calls[2].vars[X] = call.target.v[2]

\* The count the description gives for a value.
Count(v) == Len(v.v)

\* C4: size of one argument is the number of elements of a List, of entries
\* of a Map, of characters of a String and of bytes of a Bytes, and fails
\* with FunctionError for every other type.
C4_SizeCounts ==
    (Done("size") /\ call.target = NoTarget /\ Len(call.args) = 1
        /\ FirstArg.ok) =>
        IF FirstArg.val.t \in {"List", "Map", "String", "Bytes"}
        THEN result = Ok(CelInt(Count(FirstArg.val)))
        ELSE ~result.ok /\ result.err.kind = "FunctionError"

C6_SizeExactlyOneArgument ==
    (Done("size") /\ call.target = NoTarget) =>
        /\ Len(call.args) = 0 => result = Err(invalid_argument_count(1, 0))
        /\ Len(call.args) # 1 => ~result.ok

\* C7 as stated: map with n # 2 arguments fails with
\* InvalidArgumentCount{2, n}, with or without a receiver.
C7_Original ==
    (Done("map") /\ Len(call.args) # 2) =>
        result = Err(invalid_argument_count(2, Len(call.args)))

\* C7: map with a receiver and n # 2 arguments fails with
\* InvalidArgumentCount{2, n}; without a receiver it fails with
\* MissingArgumentOrTarget whatever the arguments.
C7_MapArgumentCount ==
    Done("map") =>
        /\ (call.target # NoTarget /\ Len(call.args) # 2) =>
               result = Err(invalid_argument_count(2, Len(call.args)))
        /\ call.target = NoTarget => result = Err(missing_argument_or_target)

\* map was called on a receiver that is not a list with three arguments.
C7_Witness ==
    /\ Done("map")
    /\ call.target # NoTarget /\ call.target.t # "List"
    /\ Len(call.args) = 3
    /\ call.args[1].k = "Ident"

\* C8 as stated: map on a receiver that is not a List fails with
\* FunctionError and resolves nothing, whatever the arguments.
C8_Original ==
    (Done("map") /\ call.target # NoTarget /\ call.target.t # "List") =>
        /\ ~result.ok
        /\ result.err.kind = "FunctionError"
        /\ calls = <<>>

\* C8: map on a receiver that is not a List resolves nothing and fails: with
\* FunctionError when it has two arguments, with InvalidArgumentCount
\* otherwise.
C8_MapNeedsList ==
    (Done("map") /\ call.target # NoTarget /\ call.target.t # "List") =>
        /\ ~result.ok
        /\ calls = <<>>
        /\ Len(call.args) = 2 =>
               /\ result.err.kind = "FunctionError"
               /\ result.err.function = "map"
        /\ Len(call.args) # 2 => result.err.kind = "InvalidArgumentCount"

\* map was called on a map value with an identifier and a transform.
C8_Witness ==
    /\ Done("map")
    /\ call.target.t = "Map"
    /\ Len(call.args) = 2
    /\ call.args[1].k = "Ident"
    /\ result.err.kind = "FunctionError"

\* C9: contains on a List with a probe that resolves returns true exactly
\* when an element equals the probe, and false when the probe's type is the
\* type of no element.
C9_ListContains ==
    (Done("contains") /\ call.target.t = "List" /\ Len(call.args) >= 1
        /\ FirstArg.ok) =>
        /\ result.ok
        /\ result.val.t = "Bool"
        /\ result.val.v <=>
               \E i \in 1..Len(call.target.v) :
                   CelEq(call.target.v[i], FirstArg.val)
        /\ (\A i \in 1..Len(call.target.v) :
                call.target.v[i].t # FirstArg.val.t) =>
               result = Ok(CelBool(FALSE))

\* contains was asked for a probe of a type that is no key type and that no
\* element of the two-element list has.
C9_Witness ==
    /\ Done("contains") /\ call.target.t = "List" /\ Len(call.args) >= 1
    /\ FirstArg.ok
    /\ Len(call.target.v) = 2
    /\ ~IsKey(FirstArg.val)
    /\ \A i \in 1..2 : call.target.v[i].t # FirstArg.val.t
    /\ result = Ok(CelBool(FALSE))

\* C10: map resolves the transform for the elements in index order, one
\* resolution per element, and stops at the first element on which it
\* fails: the result is that element's error and no later element is
\* resolved.
C10_MapStopsAtFirstError ==
    (call.name = "map" /\ MapOnList) =>
        /\ Len(calls) <= Len(call.target.v)
        /\ \A j \in 1..Len(calls) :
               /\ calls[j].e = call.args[2]
               /\ calls[j].vars = (call.args[1].name :> call.target.v[j])
               /\ j < Len(calls) => Transformed(j).ok
        /\ Len(values) <= Len(calls)
        /\ \A j \in 1..Len(values) : values[j] = Transformed(j).val
        /\ (pc = "done"
              /\ \E i \in 1..Len(call.target.v) : ~Transformed(i).ok) =>
               LET first == CHOOSE i \in 1..Len(call.target.v) :
                                /\ ~Transformed(i).ok
                                /\ \A j \in 1..(i - 1) : Transformed(j).ok
               IN  /\ result = Err(Transformed(first).err)
                   /\ Len(calls) = first

\* The transform fails on both elements, differently, and map returned the
\* first failure after one resolution.
C10_Witness ==
    /\ Done("map") /\ MapOnList
    /\ Len(call.target.v) = 2
    /\ ~Transformed(1).ok /\ ~Transformed(2).ok
    /\ Transformed(1).err # Transformed(2).err
    /\ result = Err(Transformed(1).err)
    /\ Len(calls) = 1

====
